---- MODULE Spec2Model ----
(***************************************************************************)
(* Model of the resilience layer of the smart-dine API gateway:            *)
(*   src/api-gateway/src/middleware/rate_limit.py      (sliding window)    *)
(*   src/api-gateway/src/middleware/circuit_breaker.py (circuit breaker)   *)
(*   src/api-gateway/src/config.py                     (settings)          *)
(*   src/api-gateway/src/main.py                       (routes)            *)
(*                                                                         *)
(* The specifications share the variables:                                 *)
(*   SpecRL        RateLimitMiddleware.dispatch called by two clients      *)
(*   SpecCB        tasks calling the three CircuitBreaker methods directly *)
(*   Spec          tasks running CircuitBreakerMiddleware.dispatch         *)
(*   SpecGW        tasks running the pipeline: rate limiter, then breaker  *)
(*   SpecClassify  tasks applying _get_service_from_path                   *)
(*   SpecLive      dispatch for one service under fair scheduling          *)
(*   SpecMain      tasks running the application of main.py: response      *)
(*                 cache, fixed-window rate limiter, proxy route           *)
(* Time is discrete: `now` is the value time.time() returns.               *)
(***************************************************************************)
EXTENDS Integers, Sequences, FiniteSets, TLC

VARIABLES
    now,              \* the clock read by time.time()
    redis,            \* Redis: key -> [zset, expire_at], existing keys only
    rl_log,           \* per client id: the last LogDepth calls of _check_rate_limit
    rl_last,          \* the most recent _check_rate_limit call, with the zset it found
    iso,              \* per client id: the store of a limiter serving that client alone
    circuit_breakers, \* CircuitBreakerMiddleware.circuit_breakers: service -> breaker
    pc,               \* per task: the statement it is at
    frame,            \* per task: its local variables
    streak            \* per breaker: record_failure calls completed since creation / last record_success

vars == <<now, redis, rl_log, rl_last, iso, circuit_breakers, pc, frame, streak>>

rlVars == <<redis, rl_log, rl_last, iso>>
cbVars == <<circuit_breakers, pc, frame, streak>>

(***************************************************************************)
(* Settings (config.py), scaled down, and the bounds of the model.         *)
(***************************************************************************)
RATE_LIMIT_WINDOW == 3

RATE_LIMIT_MAX_REQUESTS == 2

CIRCUIT_BREAKER_FAILURE_THRESHOLD == 3

CIRCUIT_BREAKER_RECOVERY_TIMEOUT == 1

MaxTime == 5

MaxClock == 2

MaxFailures == 4

NumTasks == 2

LogDepth == RATE_LIMIT_MAX_REQUESTS + 1


(***************************************************************************)
(* The clock.                                                              *)
(***************************************************************************)
Tick ==
    /\ now < MaxTime
    /\ now' = now + 1
    /\ UNCHANGED <<rlVars, cbVars>>

\* The clock of the breaker specifications stops at MaxClock
TickCB == now < MaxClock /\ Tick

(***************************************************************************)
(* Redis sorted sets: a zset is a function member -> score.                *)
(***************************************************************************)
EmptyZSet == [m \in {} |-> 0]

\* ZREMRANGEBYSCORE key min max: removes the members with min <= score <= max
zremrangebyscore(z, min, max) ==
    [m \in {x \in DOMAIN z : ~(min <= z[x] /\ z[x] <= max)} |-> z[m]]

\* ZCARD key
zcard(z) == Cardinality(DOMAIN z)

\* ZADD key score member: adds the member or updates the score of an existing one
zadd(z, member, score) ==
    [m \in DOMAIN z \cup {member} |-> IF m = member THEN score ELSE z[m]]

\* What a command finds under a key: nothing once the key's expiry has passed
RedisZSet(store, key, t) ==
    IF key \in DOMAIN store /\ store[key].expire_at > t
    THEN store[key].zset
    ELSE EmptyZSet

RedisSet(store, key, z, expire_at) ==
    [k \in DOMAIN store \cup {key} |->
        IF k = key THEN [zset |-> z, expire_at |-> expire_at] ELSE store[k]]

(***************************************************************************)
(* RateLimitMiddleware                                                     *)
(***************************************************************************)
NoUser == "none"

\* The requests' callers: request.state.user (set by AuthMiddleware) and request.client.host
Clients ==
    { [user |-> "alice", host |-> "10.0.0.1"],
      [user |-> NoUser,  host |-> "10.0.0.1"] }

\* _get_client_id: f"user:{sub}" if authenticated, else f"ip:{host}"
_get_client_id(request) ==
    IF request.user # NoUser
    THEN <<"user", request.user>>
    ELSE <<"ip", request.host>>

ClientIds == { _get_client_id(c) : c \in Clients }

RateLimitKeyShared(client_id) == <<"rate_limit">>

\* key = f"rate_limit:{client_id}"
RateLimitKey(client_id) == <<"rate_limit", client_id>>

\* str(now): the member under which a request is stored
MemberOf(t) == ToString(t)

UnderLimitInclusive(request_count) == request_count <= RATE_LIMIT_MAX_REQUESTS

\* return request_count < settings.RATE_LIMIT_MAX_REQUESTS
UnderLimit(request_count) == request_count < RATE_LIMIT_MAX_REQUESTS

PipelineWindowTwice(z, t) ==
    LET cleaned == zremrangebyscore(z, 0, t - 2 * RATE_LIMIT_WINDOW)
        request_count == zcard(cleaned)
    IN  [ zset          |-> zadd(cleaned, MemberOf(t), t),
          expire_at     |-> t + 2 * RATE_LIMIT_WINDOW,
          request_count |-> request_count,
          allowed       |-> UnderLimit(request_count) ]

PipelineBoundaryKept(z, t) ==
    LET cleaned == zremrangebyscore(z, 0, t - RATE_LIMIT_WINDOW - 1)
        request_count == zcard(cleaned)
    IN  [ zset          |-> zadd(cleaned, MemberOf(t), t),
          expire_at     |-> t + RATE_LIMIT_WINDOW,
          request_count |-> request_count,
          allowed       |-> UnderLimit(request_count) ]

\* The pipeline of _check_rate_limit on the zset found under the key at time t:
\* zremrangebyscore, zcard, zadd, expire; the result of zcard decides.
Pipeline(z, t) ==
    LET cleaned == zremrangebyscore(z, 0, t - RATE_LIMIT_WINDOW)
        request_count == zcard(cleaned)
    IN  [ zset          |-> zadd(cleaned, MemberOf(t), t),
          expire_at     |-> t + RATE_LIMIT_WINDOW,
          request_count |-> request_count,
          allowed       |-> UnderLimit(request_count) ]

Push(log, e) ==
    IF Len(log) < LogDepth THEN Append(log, e) ELSE Append(Tail(log), e)

Never == -1

\* The time of the latest admitted call of a log, Never when there is none
LastAdmitted(log) ==
    IF Len(log) = 0 THEN Never
    ELSE IF log[Len(log)].allowed THEN log[Len(log)].now
    ELSE log[Len(log)].last_admitted

\* _check_rate_limit(client_id), executed as one Redis transaction
_check_rate_limit(client_id) ==
    LET key    == RateLimitKey(client_id)
        before == RedisZSet(redis, key, now)
        out    == Pipeline(before, now)
        alone  == Pipeline(RedisZSet(iso, client_id, now), now)
    IN  /\ redis' = RedisSet(redis, key, out.zset, out.expire_at)
        /\ iso' = RedisSet(iso, client_id, alone.zset, alone.expire_at)
        /\ rl_last' = [ client_id |-> client_id, now |-> now, before |-> before,
                        request_count |-> out.request_count, allowed |-> out.allowed,
                        status |-> IF out.allowed THEN 200 ELSE 429 ]
        /\ rl_log' = [rl_log EXCEPT ![client_id] =
                        Push(@, [ now |-> now, request_count |-> out.request_count,
                                  allowed |-> out.allowed,
                                  alone |-> alone.allowed,
                                  last_admitted |-> LastAdmitted(@) ])]

\* RateLimitMiddleware.dispatch: 429 when _check_rate_limit is false, else call_next
RateLimitDispatch(request) ==
    /\ _check_rate_limit(_get_client_id(request))
    /\ UNCHANGED <<now, cbVars>>

NoCall == [ client_id |-> <<>>, now |-> 0, before |-> EmptyZSet,
            request_count |-> 0, allowed |-> TRUE, status |-> 0 ]

InitRL ==
    /\ now = 0
    /\ redis = <<>>
    /\ rl_log = [c \in ClientIds |-> <<>>]
    /\ rl_last = NoCall
    /\ iso = <<>>

(***************************************************************************)
(* CircuitState, CircuitBreaker                                            *)
(***************************************************************************)
CLOSED == "CLOSED"

OPEN == "OPEN"

HALF_OPEN == "HALF_OPEN"

Tasks == 1..NumTasks

NoTask == 0

NoState == "none"

NoResponse == [status |-> 0, detail |-> "", service |-> ""]

NoException == "none"

\* CircuitBreaker.__init__
NewCircuitBreaker ==
    [ state |-> CLOSED, failure_count |-> 0, last_failure_time |-> 0, lock |-> NoTask ]

\* A task's locals: what it runs (op), on which breaker, the value check_state
\* returned (state), the counter value it read (tmp), where its method returns
\* to (ret), the upstream calls made (calls) and the response; `overlap` says
\* that another call of the same method was in progress when this one began;
\* `path` is request.url.path and `raised` the exception call_next raised.
\* A task at "done" has finished and still holds its result.
IdleFrame ==
    [ op |-> "none", path |-> <<>>, service |-> "", breaker |-> "", state |-> NoState,
      tmp |-> 0, ret |-> "done", overlap |-> FALSE, calls |-> 0,
      raised |-> NoException, response |-> NoResponse ]

\* Task t continues with frame f at f.ret
Return(t, f) ==
    /\ pc' = [pc EXCEPT ![t] = f.ret]
    /\ frame' = [frame EXCEPT ![t] = f]

\* The caller has taken the result: the task is free for the next call
Finish(t) ==
    /\ pc[t] = "done"
    /\ pc' = [pc EXCEPT ![t] = "idle"]
    /\ frame' = [frame EXCEPT ![t] = IdleFrame]
    /\ UNCHANGED <<now, rlVars, circuit_breakers, streak>>

BreakerKeyShared(service) == "shared"

\* self.circuit_breakers[service]: the registry is keyed by the service name
BreakerKey(service) == service

\* _get_circuit_breaker: creates the service's breaker on first reference
_get_circuit_breaker(service) ==
    [k \in DOMAIN circuit_breakers \cup {BreakerKey(service)} |->
        IF k \in DOMAIN circuit_breakers THEN circuit_breakers[k] ELSE NewCircuitBreaker]

StreakWith(service) ==
    [k \in DOMAIN streak \cup {BreakerKey(service)} |->
        IF k \in DOMAIN streak THEN streak[k] ELSE 0]

Breaker(t) == circuit_breakers[frame[t].breaker]

LockIgnored(b) == TRUE

\* asyncio.Lock: acquire() returns only while no task holds the lock
LockFree(b) == b.lock = NoTask

TripAbove(failure_count) == failure_count > CIRCUIT_BREAKER_FAILURE_THRESHOLD

\* if self.failure_count >= settings.CIRCUIT_BREAKER_FAILURE_THRESHOLD
TripReached(failure_count) == failure_count >= CIRCUIT_BREAKER_FAILURE_THRESHOLD

RecoveryDueInclusive(t, last_failure_time) ==
    t - last_failure_time >= CIRCUIT_BREAKER_RECOVERY_TIMEOUT

\* if time.time() - self.last_failure_time > settings.CIRCUIT_BREAKER_RECOVERY_TIMEOUT
RecoveryDue(t, last_failure_time) ==
    t - last_failure_time > CIRCUIT_BREAKER_RECOVERY_TIMEOUT

\* The state check_state leaves and returns, lines 36-39
StateAfterCheckStays(b, t) == b.state

StateAfterCheck(b, t) ==
    IF b.state = OPEN /\ RecoveryDue(t, b.last_failure_time) THEN HALF_OPEN ELSE b.state

\* check_state, lines 36-38: the breaker it leaves when called at time t
check_state(b, t) == [b EXCEPT !.state = StateAfterCheck(b, t)]

StoreFailureKeepsOpenTime(b, read, t) ==
    [b EXCEPT !.failure_count = read + 1,
              !.last_failure_time = IF b.state = OPEN THEN b.last_failure_time ELSE t,
              !.state = IF TripReached(read + 1) THEN OPEN ELSE b.state]

\* record_failure, lines 24-27, with `read` the counter value line 24 read
StoreFailure(b, read, t) ==
    [b EXCEPT !.failure_count = read + 1,
              !.last_failure_time = t,
              !.state = IF TripReached(read + 1) THEN OPEN ELSE b.state]

RecordFailureDropped(b, t) == b

\* record_failure, lines 24-27, run without interruption
record_failure(b, t) == StoreFailure(b, b.failure_count, t)

RecordSuccessKeepsCount(b) == [b EXCEPT !.state = CLOSED]

\* record_success, lines 31-32
record_success(b) == [b EXCEPT !.failure_count = 0, !.state = CLOSED]

\* async with self.lock: of record_failure, record_success and check_state
Acquire(t) ==
    /\ pc[t] \in {"rf_23", "rs_30", "cs_35"}
    /\ LockFree(Breaker(t))
    /\ circuit_breakers' = [circuit_breakers EXCEPT ![frame[t].breaker].lock = t]
    /\ pc' = [pc EXCEPT ![t] = CASE pc[t] = "rf_23" -> "rf_24"
                                 [] pc[t] = "rs_30" -> "rs_31"
                                 [] pc[t] = "cs_35" -> "cs_36"]
    /\ UNCHANGED <<now, rlVars, frame, streak>>

\* record_failure, line 24: self.failure_count += 1 reads the counter ...
RecordFailureLoad(t) ==
    /\ pc[t] = "rf_24"
    /\ frame' = [frame EXCEPT ![t].tmp = Breaker(t).failure_count]
    /\ pc' = [pc EXCEPT ![t] = "rf_24w"]
    /\ UNCHANGED <<now, rlVars, circuit_breakers, streak>>

\* ... and stores the incremented value; lines 25-27 and the release of the lock
RecordFailureStore(t) ==
    /\ pc[t] = "rf_24w"
    /\ circuit_breakers' =
          [circuit_breakers EXCEPT ![frame[t].breaker] =
              [StoreFailure(Breaker(t), frame[t].tmp, now) EXCEPT !.lock = NoTask]]
    /\ streak' = [streak EXCEPT ![frame[t].breaker] = @ + 1]
    /\ Return(t, [frame[t] EXCEPT !.tmp = 0])
    /\ UNCHANGED <<now, rlVars>>

\* record_success, lines 31-32, and the release of the lock
RecordSuccess(t) ==
    /\ pc[t] = "rs_31"
    /\ circuit_breakers' =
          [circuit_breakers EXCEPT ![frame[t].breaker] =
              [record_success(Breaker(t)) EXCEPT !.lock = NoTask]]
    /\ streak' = [streak EXCEPT ![frame[t].breaker] = 0]
    /\ Return(t, frame[t])
    /\ UNCHANGED <<now, rlVars>>

\* check_state, lines 36-39, and the release of the lock
CheckState(t) ==
    /\ pc[t] = "cs_36"
    /\ circuit_breakers' =
          [circuit_breakers EXCEPT ![frame[t].breaker] =
              [check_state(Breaker(t), now) EXCEPT !.lock = NoTask]]
    /\ Return(t, [frame[t] EXCEPT !.state = StateAfterCheck(Breaker(t), now)])
    /\ UNCHANGED <<now, rlVars, streak>>

BreakerStep(t) ==
    \/ Acquire(t)
    \/ RecordFailureLoad(t)
    \/ RecordFailureStore(t)
    \/ RecordSuccess(t)
    \/ CheckState(t)

(***************************************************************************)
(* Direct callers of a breaker's methods (SpecCB)                          *)
(***************************************************************************)
DirectServices == {"restaurant-service"}

Entry(op) ==
    CASE op = "record_failure" -> "rf_23"
      [] op = "record_success" -> "rs_30"
      [] op = "check_state"    -> "cs_35"

\* The calls of op in progress on the service's breaker
Running(service, op) ==
    {u \in Tasks : pc[u] \notin {"idle", "done"} /\ frame[u].op = op /\ frame[u].breaker = BreakerKey(service)}

\* Idle tasks are interchangeable: the one with the least id takes the next call
NextIdle(t) == pc[t] = "idle" /\ \A u \in Tasks : u < t => pc[u] # "idle"

\* A task obtains the service's breaker and calls one of its methods
Call(t, service, op) ==
    /\ NextIdle(t)
    /\ circuit_breakers' = _get_circuit_breaker(service)
    /\ streak' = StreakWith(service)
    /\ op = "record_failure" => streak'[BreakerKey(service)] < MaxFailures
    /\ frame' = [frame EXCEPT ![t] =
                   [ IdleFrame EXCEPT !.op = op, !.service = service,
                                      !.breaker = BreakerKey(service),
                                      !.overlap = Running(service, op) # {} ]]
    /\ pc' = [pc EXCEPT ![t] = Entry(op)]
    /\ UNCHANGED <<now, rlVars>>

(***************************************************************************)
(* CircuitBreakerMiddleware                                                *)
(***************************************************************************)
\* "word in path": the word occurs in the path as a run of consecutive characters
Contains(path, word) ==
    \E i \in 1..(Len(path) - Len(word) + 1) : SubSeq(path, i, i + Len(word) - 1) = word

W_auth == <<"a", "u", "t", "h">>

W_restaurants == <<"r", "e", "s", "t", "a", "u", "r", "a", "n", "t", "s">>

W_preferences == <<"p", "r", "e", "f", "e", "r", "e", "n", "c", "e", "s">>

W_reviews == <<"r", "e", "v", "i", "e", "w", "s">>

W_health == <<"h", "e", "a", "l", "t", "h">>

ClassifyRestaurantsFirst(path) ==
    IF Contains(path, W_restaurants) THEN "restaurant-service"
    ELSE IF Contains(path, W_auth) THEN "auth-service"
    ELSE IF Contains(path, W_preferences) THEN "preference-service"
    ELSE IF Contains(path, W_reviews) THEN "review-service"
    ELSE "unknown"

\* _get_service_from_path
_get_service_from_path(path) ==
    IF Contains(path, W_auth) THEN "auth-service"
    ELSE IF Contains(path, W_restaurants) THEN "restaurant-service"
    ELSE IF Contains(path, W_preferences) THEN "preference-service"
    ELSE IF Contains(path, W_reviews) THEN "review-service"
    ELSE "unknown"

\* The paths requested: /auth and /restaurants
Paths == { <<"/">> \o W_auth, <<"/">> \o W_restaurants }

\* What the upstream answers when call_next returns
UpstreamStatuses == {200, 500}

\* @app.get("/health") of main.py
HealthPath == <<"/">> \o W_health

\* What call_next can raise: a transport failure of the forwarded call
\* (httpx raising in proxy_to_backend) or an internal error of the gateway
TransportError == "transport"

InternalError == "internal"

\* The statuses of the responses call_next can return for a path: health_check
\* answers 200, proxy_to_backend answers with the upstream's status
RouteReturns(path) == IF path = HealthPath THEN {200} ELSE UpstreamStatuses

\* The exceptions call_next can raise for a path: health_check raises nothing
RouteRaises(path) == IF path = HealthPath THEN {} ELSE {TransportError, InternalError}

Unavailable == "is temporarily unavailable"

Issues == "is experiencing issues"

\* raise HTTPException(status_code=503, detail=f"Service {service} ...")
ServiceError(service, what) == [status |-> 503, detail |-> what, service |-> service]

TrialAlways(state) == TRUE

TrialNever(state) == FALSE

\* if state == CircuitState.HALF_OPEN (line 77)
TrialSucceeded(state) == state = HALF_OPEN

AdmitsAll(state) == FALSE

\* if state == CircuitState.OPEN (line 68)
Rejects(state) == state = OPEN

\* The dispatch coroutine runs on the event loop: it is interrupted only where
\* it awaits something that suspends, which is call_next. A breaker's lock is
\* free whenever a coroutine reaches it, so the methods it awaits run at once.

\* dispatch, lines 63-72: classify the path, get the breaker, check_state,
\* then 503 while the breaker is OPEN or else go on to call_next
Admission(path) ==
    LET service  == _get_service_from_path(path)
        key      == BreakerKey(service)
        registry == _get_circuit_breaker(service)
        state    == StateAfterCheck(registry[key], now)
        f        == [ IdleFrame EXCEPT !.op = "dispatch", !.path = path,
                                       !.service = service,
                                       !.breaker = key, !.state = state ]
    IN  [ free             |-> LockFree(registry[key]),
          circuit_breakers |-> [registry EXCEPT ![key] = check_state(@, now)],
          streak           |-> StreakWith(service),
          frame            |-> IF Rejects(state)
                               THEN [f EXCEPT !.ret = "done",
                                       !.response = ServiceError(service, Unavailable)]
                               ELSE [f EXCEPT !.ret = "d_75"] ]

BeginDispatch(t, path) ==
    /\ NextIdle(t)
    /\ LET a == Admission(path)
       IN  /\ a.free
           /\ circuit_breakers' = a.circuit_breakers
           /\ streak' = a.streak
           /\ Return(t, a.frame)
    /\ UNCHANGED <<now, rlVars>>

\* dispatch, lines 75-80: call_next returns a response; a request admitted in
\* HALF_OPEN calls record_success before it returns the response
CallNextReturns(t, status) ==
    /\ pc[t] = "d_75"
    /\ status \in RouteReturns(frame[t].path)
    /\ LockFree(Breaker(t))
    /\ IF TrialSucceeded(frame[t].state)
       THEN /\ circuit_breakers' =
                  [circuit_breakers EXCEPT ![frame[t].breaker] = record_success(@)]
            /\ streak' = [streak EXCEPT ![frame[t].breaker] = 0]
       ELSE UNCHANGED <<circuit_breakers, streak>>
    /\ Return(t, [frame[t] EXCEPT !.ret = "done", !.calls = @ + 1,
                     !.response = [status |-> status, detail |-> "upstream",
                                   service |-> frame[t].service]])
    /\ UNCHANGED <<now, rlVars>>

\* dispatch, lines 82-87: call_next raises; `except Exception` takes whatever
\* was raised: record_failure, then 503
CallNextRaises(t, exc) ==
    /\ pc[t] = "d_75"
    /\ exc \in RouteRaises(frame[t].path)
    /\ LockFree(Breaker(t))
    /\ streak[frame[t].breaker] < MaxFailures
    /\ circuit_breakers' =
          [circuit_breakers EXCEPT ![frame[t].breaker] = record_failure(@, now)]
    /\ streak' = [streak EXCEPT ![frame[t].breaker] = @ + 1]
    /\ Return(t, [frame[t] EXCEPT !.ret = "done", !.calls = @ + 1, !.raised = exc,
                     !.response = ServiceError(frame[t].service, Issues)])
    /\ UNCHANGED <<now, rlVars>>

InitCB ==
    /\ circuit_breakers = <<>>
    /\ pc = [t \in Tasks |-> "idle"]
    /\ frame = [t \in Tasks |-> IdleFrame]
    /\ streak = <<>>

Init == InitRL /\ InitCB

NextRL ==
    \/ Tick
    \/ \E request \in Clients : RateLimitDispatch(request)

SpecRL == Init /\ [][NextRL]_vars

NextCB ==
    \/ TickCB
    \/ \E t \in Tasks : BreakerStep(t)
    \/ \E t \in Tasks : Finish(t)
    \/ \E t \in Tasks, service \in DirectServices,
          op \in {"record_failure", "record_success", "check_state"} : Call(t, service, op)

SpecCB == Init /\ [][NextCB]_vars

Next ==
    \/ TickCB
    \/ \E t \in Tasks, path \in Paths : BeginDispatch(t, path)
    \/ \E t \in Tasks, status \in UpstreamStatuses : CallNextReturns(t, status)
    \/ \E t \in Tasks : CallNextRaises(t, TransportError)
    \/ \E t \in Tasks : Finish(t)

Spec == Init /\ [][Next]_vars

(***************************************************************************)
(* _get_service_from_path applied to paths made of one or two words        *)
(***************************************************************************)
W_aut == <<"a", "u", "t">>

PathWords == {W_auth, W_restaurants, W_preferences, W_reviews, W_health, W_aut}

\* /a and /a/b for the words a, b, and /autb ("aut" run together with b)
ClassifyPaths ==
    {<<"/">> \o a : a \in PathWords}
        \cup {<<"/">> \o a \o <<"/">> \o b : a, b \in PathWords}
        \cup {<<"/">> \o W_aut \o b : b \in PathWords}

\* service = self._get_service_from_path(request.url.path)
Classify(t, path) ==
    /\ NextIdle(t)
    /\ Return(t, [ IdleFrame EXCEPT !.op = "classify", !.path = path,
                                    !.service = _get_service_from_path(path) ])
    /\ UNCHANGED <<now, rlVars, circuit_breakers, streak>>

NextClassify ==
    \/ \E t \in Tasks, path \in ClassifyPaths : Classify(t, path)
    \/ \E t \in Tasks : Finish(t)

SpecClassify == Init /\ [][NextClassify]_vars

(***************************************************************************)
(* The gateway pipeline: rate limiting, then circuit breaking, then the    *)
(* route (main.py). A request enters RateLimitMiddleware.dispatch, whose   *)
(* call_next is CircuitBreakerMiddleware.dispatch, whose call_next is the  *)
(* route handler.                                                          *)
(***************************************************************************)
TooMany == "Too many requests. Please try again later."

\* raise HTTPException(status_code=429, detail="Too many requests. ...")
RateLimited == [status |-> 429, detail |-> TooMany, service |-> ""]

\* The caller of the gateway's requests
GatewayClient == [user |-> NoUser, host |-> "10.0.0.1"]

\* The paths requested of the gateway: /restaurants and /health
RestaurantsPath == <<"/">> \o W_restaurants

GatewayPaths == { RestaurantsPath, HealthPath }

ReachesCallNextAlways(allowed) == TRUE

\* RateLimitMiddleware.dispatch reaches `return await call_next(request)`
\* (line 29) only when lines 23-27 did not raise
ReachesCallNext(allowed) == allowed

\* A request enters the pipeline: _check_rate_limit stores the request and
\* decides; a refused request ends with 429, an admitted one goes on to
\* lines 63-72 of CircuitBreakerMiddleware.dispatch
GatewayBegin(t, request, path) ==
    /\ NextIdle(t)
    /\ LET key     == RateLimitKey(_get_client_id(request))
           out     == Pipeline(RedisZSet(redis, key, now), now)
           reached == ReachesCallNext(out.allowed)
           a       == Admission(path)
       IN  /\ redis' = RedisSet(redis, key, out.zset, out.expire_at)
           /\ reached => a.free
           /\ circuit_breakers' = IF reached THEN a.circuit_breakers ELSE circuit_breakers
           /\ streak' = IF reached THEN a.streak ELSE streak
           /\ IF out.allowed
              THEN Return(t, a.frame)
              ELSE Return(t, [ IdleFrame EXCEPT !.op = "dispatch", !.path = path,
                                                !.ret = "done", !.response = RateLimited ])
    /\ UNCHANGED <<now, rl_log, rl_last, iso>>

NextGW ==
    \/ TickCB
    \/ \E t \in Tasks, path \in GatewayPaths : GatewayBegin(t, GatewayClient, path)
    \/ \E t \in Tasks, status \in UpstreamStatuses : CallNextReturns(t, status)
    \/ \E t \in Tasks, exc \in {TransportError, InternalError} : CallNextRaises(t, exc)
    \/ \E t \in Tasks : Finish(t)

SpecGW == Init /\ [][NextGW]_vars

(***************************************************************************)
(* The application of main.py.  Its two function middlewares and the proxy *)
(* route share one Redis: `redis` maps a key to [value, expire_at].        *)
(* cache_middleware is registered last (line 55), so it is the outermost:  *)
(* a request passes cache_middleware, rate_limit_middleware, then the      *)
(* route.  The Redis commands of one request are separate round trips:     *)
(* the clock and the other requests may act between them.                  *)
(***************************************************************************)
\* Settings.RATE_LIMIT_REQUESTS and Settings.RATE_LIMIT_WINDOW of main.py, scaled
MAIN_RATE_LIMIT_REQUESTS == 2

MAIN_RATE_LIMIT_WINDOW == 2

\* the time-to-live of a cached response (line 71), scaled
CACHE_TTL == 2

\* the expire_at of a key that has no expiry
NoExpiry == -1

\* What GET returns: None for a key that does not exist, else the value,
\* here the empty sequence and the one-element sequence holding the value
None == <<>>

Some(value) == <<value>>

\* Redis removes a key when its expiry is reached
RedisLive(store, t) ==
    [k \in {x \in DOMAIN store :
               store[x].expire_at = NoExpiry \/ store[x].expire_at > t} |-> store[k]]

\* GET key
RedisGet(store, key) == IF key \in DOMAIN store THEN Some(store[key].value) ELSE None

\* SETEX key seconds value: sets the value and the expiry
RedisSetex(store, key, seconds, value, t) ==
    [k \in DOMAIN store \cup {key} |->
        IF k = key THEN [value |-> value, expire_at |-> t + seconds] ELSE store[k]]

\* INCR key: adds one and leaves the expiry alone; a key that does not exist
\* is created with value 1 and no expiry
RedisIncr(store, key) ==
    [k \in DOMAIN store \cup {key} |->
        IF k # key THEN store[k]
        ELSE IF key \in DOMAIN store
             THEN [store[key] EXCEPT !.value = @ + 1]
             ELSE [value |-> 1, expire_at |-> NoExpiry]]

\* The clock of SpecMain: keys whose expiry is reached are gone
MainTick ==
    /\ now < MaxClock
    /\ now' = now + 1
    /\ redis' = RedisLive(redis, now + 1)
    /\ UNCHANGED <<rl_log, rl_last, iso, cbVars>>

\* The requests: the credentials they carry (user, NoUser for none) and
\* request.client.host; `path` stands for the path and the query string
MainRequests ==
    { [method |-> m, path |-> RestaurantsPath, user |-> c.user, host |-> c.host] :
          m \in {"GET", "POST"}, c \in Clients }

\* line 37: f"rate_limit:{client_ip}"
MainRateLimitKey(request) == <<"rate_limit", request.host>>

\* line 60: f"cache:{request.url.path}:{request.query_params}"
CacheKey(request) == <<"cache", request.path>>

IsCounterKey(key) == key[1] = "rate_limit"

\* What the backend answers to a request: the body is the one the backend
\* produces for the request's credentials
MainStatuses == {200, 404}

UpstreamHeaders == { <<"content-type", "text/html">>, <<"x-backend", "1">> }

UpstreamBody(request) == [path |-> request.path, owner |-> request.user]

UpstreamAnswer(request, status) ==
    [status |-> status, headers |-> UpstreamHeaders, body |-> UpstreamBody(request)]

\* lines 64-67: Response(content=cached_response, media_type="application/json")
CachedResponse(cached) ==
    [status |-> 200, headers |-> { <<"content-type", "application/json">> },
     body |-> cached]

\* lines 44-47
MainRateLimited ==
    [status |-> 429, headers |-> {}, body |-> "Rate limit exceeded. Please try again later."]

MainFrame(request) ==
    [ op |-> "main", request |-> request, requests |-> None, upstream |-> NoResponse,
      ret |-> "done", response |-> NoResponse ]

\* cache_middleware, lines 57-67: a GET whose cache key holds a value is
\* answered from the cache; everything else goes on to rate_limit_middleware
CacheLookup(t, request) ==
    /\ NextIdle(t)
    /\ LET cached == RedisGet(redis, CacheKey(request))
       IN  IF request.method = "GET" /\ cached # None
           THEN Return(t, [MainFrame(request) EXCEPT !.response = CachedResponse(cached[1])])
           ELSE Return(t, [MainFrame(request) EXCEPT !.ret = "m_40"])
    /\ UNCHANGED <<now, rlVars, circuit_breakers, streak>>

\* rate_limit_middleware, line 40: requests = redis.get(key)
MainGet(t) ==
    /\ pc[t] = "m_40"
    /\ Return(t, [frame[t] EXCEPT !.ret = "m_41",
                     !.requests = RedisGet(redis, MainRateLimitKey(frame[t].request))])
    /\ UNCHANGED <<now, rlVars, circuit_breakers, streak>>

\* rate_limit_middleware, lines 41-49, on the value line 40 read
MainLimit(t) ==
    /\ pc[t] = "m_41"
    /\ LET key      == MainRateLimitKey(frame[t].request)
           requests == frame[t].requests
       IN  IF requests = None
           THEN /\ redis' = RedisSetex(redis, key, MAIN_RATE_LIMIT_WINDOW, 1, now)
                /\ Return(t, [frame[t] EXCEPT !.ret = "m_51"])
           ELSE IF requests[1] >= MAIN_RATE_LIMIT_REQUESTS
           THEN /\ redis' = redis
                /\ Return(t, [frame[t] EXCEPT !.ret = "done", !.response = MainRateLimited])
           ELSE /\ redis' = RedisIncr(redis, key)
                /\ Return(t, [frame[t] EXCEPT !.ret = "m_51"])
    /\ UNCHANGED <<now, rl_log, rl_last, iso, circuit_breakers, streak>>

\* proxy_to_backend, lines 81-99, returns the backend's answer; back in
\* cache_middleware (lines 69-73) the body of a 200 answer to a GET is stored
Proxy(t, status) ==
    /\ pc[t] = "m_51"
    /\ LET request == frame[t].request
           answer  == UpstreamAnswer(request, status)
       IN  /\ redis' = IF request.method = "GET" /\ answer.status = 200
                       THEN RedisSetex(redis, CacheKey(request), CACHE_TTL, answer.body, now)
                       ELSE redis
           /\ Return(t, [frame[t] EXCEPT !.ret = "done", !.upstream = answer,
                                         !.response = answer])
    /\ UNCHANGED <<now, rl_log, rl_last, iso, circuit_breakers, streak>>

NextMain ==
    \/ MainTick
    \/ \E t \in Tasks, request \in MainRequests : CacheLookup(t, request)
    \/ \E t \in Tasks : MainGet(t)
    \/ \E t \in Tasks : MainLimit(t)
    \/ \E t \in Tasks, status \in MainStatuses : Proxy(t, status)
    \/ \E t \in Tasks : Finish(t)

SpecMain == Init /\ [][NextMain]_vars

(***************************************************************************)
(* Recovery under fair scheduling: requests for one service keep arriving, *)
(* every task that is forwarded is eventually answered, time advances, and *)
(* the upstream stops failing early enough for the clock of the model to   *)
(* pass last_failure_time + recovery_timeout.                              *)
(***************************************************************************)
LivePath == RestaurantsPath

LiveService == _get_service_from_path(LivePath)

\* the upstream of the service fails only up to this point of the clock
UpstreamMayFail == now + CIRCUIT_BREAKER_RECOVERY_TIMEOUT < MaxClock

NextLive ==
    \/ TickCB
    \/ \E t \in Tasks : BeginDispatch(t, LivePath)
    \/ \E t \in Tasks, status \in UpstreamStatuses : CallNextReturns(t, status)
    \/ \E t \in Tasks : UpstreamMayFail /\ CallNextRaises(t, TransportError)
    \/ \E t \in Tasks : Finish(t)

Fairness ==
    /\ WF_vars(TickCB)
    /\ WF_vars(\E t \in Tasks : BeginDispatch(t, LivePath))
    /\ \A t \in Tasks :
          /\ WF_vars(\E status \in UpstreamStatuses : CallNextReturns(t, status))
          /\ WF_vars(Finish(t))

SpecLive == Init /\ [][NextLive]_vars /\ Fairness

(***************************************************************************)
(* Claims about the sliding-window rate limiter (checked under SpecRL).    *)
(***************************************************************************)
Called == rl_last # NoCall

\* The members of zset z whose score lies in the trailing window of time t
InWindow(z, t) == {m \in DOMAIN z : z[m] > t - RATE_LIMIT_WINDOW}

\* What is stored for the client of the most recent call
StoredForLast == RedisZSet(redis, RateLimitKey(rl_last.client_id), rl_last.now)

\* C4: the most recent call found the zset `before`; the timestamps outside the
\* trailing window are gone from the store, n is the number of those inside it,
\* and the call was refused (429) exactly when n >= max_requests.
C4_AdmissionDecision ==
    Called =>
        LET n == Cardinality(InWindow(rl_last.before, rl_last.now))
        IN  /\ \A m \in DOMAIN rl_last.before :
                 m \notin InWindow(rl_last.before, rl_last.now)
                    => m \notin DOMAIN StoredForLast
            /\ rl_last.request_count = n
            /\ rl_last.allowed = FALSE <=> n >= RATE_LIMIT_MAX_REQUESTS
            /\ rl_last.allowed = TRUE <=> n < RATE_LIMIT_MAX_REQUESTS
            /\ rl_last.status = 429 <=> ~rl_last.allowed

\* C4 witness: a refused call that found an expired timestamp and purged it
C4_Witness ==
    /\ Called
    /\ ~rl_last.allowed
    /\ \E m \in DOMAIN rl_last.before :
          /\ rl_last.before[m] <= rl_last.now - RATE_LIMIT_WINDOW
          /\ m \notin DOMAIN StoredForLast

\* C5: after a refused call the key holds exactly the timestamps that survived
\* the purge: the refused request's own timestamp is not added.
C5_RejectedNotRecorded ==
    (Called /\ ~rl_last.allowed) =>
        StoredForLast =
            [m \in InWindow(rl_last.before, rl_last.now) |-> rl_last.before[m]]

\* C6: max_requests + 1 calls at one instant, the first of which found no entry
\* in the window: the first max_requests are admitted, the last one is refused.
C6_SameInstantBurst ==
    \A c \in ClientIds :
        LET log == rl_log[c]
        IN  \A i \in 1..Len(log) :
                ( /\ i + RATE_LIMIT_MAX_REQUESTS <= Len(log)
                  /\ log[i].request_count = 0
                  /\ \A j \in i..(i + RATE_LIMIT_MAX_REQUESTS) : log[j].now = log[i].now )
                => /\ \A j \in i..(i + RATE_LIMIT_MAX_REQUESTS - 1) : log[j].allowed
                   /\ ~log[i + RATE_LIMIT_MAX_REQUESTS].allowed

\* C7: a call made more than window_seconds after the latest earlier call of
\* its key (hence after every earlier call, admitted or refused) is admitted.
C7_WindowElapse ==
    \A c \in ClientIds :
        \A i \in 2..Len(rl_log[c]) :
            rl_log[c][i - 1].now < rl_log[c][i].now - RATE_LIMIT_WINDOW
                => rl_log[c][i].allowed

\* C7 witness: a call admitted after the window elapsed since a refused call
C7_Witness ==
    \E c \in ClientIds :
        \E i \in 2..Len(rl_log[c]) :
            /\ rl_log[c][i - 1].now < rl_log[c][i].now - RATE_LIMIT_WINDOW
            /\ ~rl_log[c][i - 1].allowed
            /\ rl_log[c][i].allowed

\* C8: for every key, what is stored for it and every decision made for it are
\* those of a limiter that only ever served that key.
C8_Independence ==
    \A c \in ClientIds :
        /\ RedisZSet(redis, RateLimitKey(c), now) = RedisZSet(iso, c, now)
        /\ \A i \in 1..Len(rl_log[c]) : rl_log[c][i].allowed = rl_log[c][i].alone

\* C8 witness: one key is refused while the other key, called later, is admitted
C8_Witness ==
    \E a, b \in ClientIds :
        /\ a # b
        /\ Len(rl_log[a]) > 0 /\ ~rl_log[a][Len(rl_log[a])].allowed
        /\ rl_last.client_id = b /\ rl_last.allowed
        /\ rl_last.now = rl_log[a][Len(rl_log[a])].now

\* The members the most recent call found stored exactly at now - window
AtBoundary == {m \in DOMAIN rl_last.before : rl_last.before[m] = rl_last.now - RATE_LIMIT_WINDOW}

\* C22: a timestamp stored exactly at now - window_seconds is expired: the
\* call purges it and does not count it; and a call made exactly
\* window_seconds after a call that found the window empty (the one admitted
\* request of a limit of 1) finds the window empty again and is admitted.
C22_BoundaryExclusive ==
    /\ Called =>
          /\ \A m \in AtBoundary : m \notin DOMAIN StoredForLast
          /\ rl_last.request_count =
                Cardinality({m \in DOMAIN rl_last.before \ AtBoundary :
                                rl_last.before[m] >= rl_last.now - RATE_LIMIT_WINDOW})
    /\ \A c \in ClientIds :
          \A i \in 2..Len(rl_log[c]) :
              ( /\ rl_log[c][i - 1].request_count = 0
                /\ rl_log[c][i].now = rl_log[c][i - 1].now + RATE_LIMIT_WINDOW )
                  => rl_log[c][i].request_count = 0 /\ rl_log[c][i].allowed

\* C22 witness: the most recent call found one timestamp exactly at the
\* boundary and one inside the window, counted one and was admitted
C22_Witness ==
    /\ Called
    /\ Cardinality(AtBoundary) = 1
    /\ zcard(rl_last.before) = 2
    /\ rl_last.request_count = 1
    /\ rl_last.allowed
    /\ \A m \in AtBoundary : m \notin DOMAIN StoredForLast

\* C23: after a call returns, every timestamp stored for its key lies within
\* [now - window, now] and the key holds at most max_requests timestamps.
C23_RetainedTimestamps ==
    Called =>
        /\ \A m \in DOMAIN StoredForLast :
              /\ rl_last.now - RATE_LIMIT_WINDOW <= StoredForLast[m]
              /\ StoredForLast[m] <= rl_last.now
        /\ zcard(StoredForLast) <= RATE_LIMIT_MAX_REQUESTS

\* C28: a call is refused only while an admitted request of its key is still
\* in the window: a client that goes on calling is admitted again by the time
\* its admitted requests have left the window.
C28_NoStarvation ==
    \A c \in ClientIds :
        \A i \in 1..Len(rl_log[c]) :
            ~rl_log[c][i].allowed
                => /\ rl_log[c][i].last_admitted # Never
                   /\ rl_log[c][i].last_admitted > rl_log[c][i].now - RATE_LIMIT_WINDOW

(***************************************************************************)
(* Claims about the CircuitBreaker methods (checked under SpecCB).         *)
(***************************************************************************)
Breakers == DOMAIN circuit_breakers

\* Task t takes a step that leaves the statement `at`
Leaves(t, at) == pc[t] = at /\ pc'[t] # at

\* The tasks inside record_failure on breaker k
InRecordFailure(k) ==
    {t \in Tasks : pc[t] \in {"rf_23", "rf_24", "rf_24w"} /\ frame[t].breaker = k}

\* C1: counting the record_failure calls completed on a breaker since it was
\* created (or last reset): fewer than threshold leave it CLOSED, the call that
\* makes them threshold leaves it OPEN, and a check_state made at that instant,
\* with no call in between, returns OPEN.
C1_Trip ==
    /\ [](\A k \in Breakers :
            streak[k] < CIRCUIT_BREAKER_FAILURE_THRESHOLD
                => circuit_breakers[k].state = CLOSED)
    /\ [][\A k \in Breakers :
            (streak'[k] = CIRCUIT_BREAKER_FAILURE_THRESHOLD /\ streak[k] # streak'[k])
                => circuit_breakers'[k].state = OPEN]_vars
    /\ [][\A t \in Tasks :
            ( /\ Leaves(t, "cs_36")
              /\ streak[frame[t].breaker] = CIRCUIT_BREAKER_FAILURE_THRESHOLD
              /\ Breaker(t).last_failure_time = now )
                => frame'[t].state = OPEN]_vars

\* C1 witness: threshold failures, then a check_state at the same instant said OPEN
C1_Witness ==
    \E t \in Tasks :
        /\ pc[t] = "done" /\ frame[t].op = "check_state" /\ frame[t].state = OPEN
        /\ streak[frame[t].breaker] = CIRCUIT_BREAKER_FAILURE_THRESHOLD
        /\ Breaker(t).failure_count = CIRCUIT_BREAKER_FAILURE_THRESHOLD
        /\ Breaker(t).state = OPEN
        /\ Breaker(t).last_failure_time = now

\* C3: a check_state that finds the breaker OPEN returns OPEN (and leaves it
\* OPEN) while no more than recovery_timeout has elapsed since
\* last_failure_time, and HALF_OPEN once more has elapsed; record_success
\* leaves the breaker CLOSED with failure_count = 0.
C3_Recovery ==
    /\ [][\A t \in Tasks :
            (Leaves(t, "cs_36") /\ Breaker(t).state = OPEN)
                => LET elapsed == now - Breaker(t).last_failure_time
                       after   == circuit_breakers'[frame[t].breaker].state
                   IN  /\ elapsed <= CIRCUIT_BREAKER_RECOVERY_TIMEOUT
                            => frame'[t].state = OPEN /\ after = OPEN
                       /\ elapsed > CIRCUIT_BREAKER_RECOVERY_TIMEOUT
                            => frame'[t].state = HALF_OPEN /\ after = HALF_OPEN]_vars
    /\ [][\A t \in Tasks :
            Leaves(t, "rs_31")
                => /\ circuit_breakers'[frame[t].breaker].state = CLOSED
                   /\ circuit_breakers'[frame[t].breaker].failure_count = 0]_vars

\* C3 witness: check_state returned HALF_OPEN, then record_success closed the breaker
C3_Witness ==
    \E t, u \in Tasks :
        /\ pc[t] = "done" /\ frame[t].op = "check_state" /\ frame[t].state = HALF_OPEN
        /\ pc[u] = "done" /\ frame[u].op = "record_success"
        /\ frame[u].breaker = frame[t].breaker
        /\ Breaker(t).state = CLOSED
        /\ Breaker(t).failure_count = 0
        /\ Breaker(t).last_failure_time + CIRCUIT_BREAKER_RECOVERY_TIMEOUT < now

\* C10: once N < threshold record_failure calls have run on a fresh (or reset)
\* breaker and none is still running, failure_count is N and the state CLOSED,
\* however the calls were interleaved.
C10_NoLostUpdates ==
    \A k \in Breakers :
        (InRecordFailure(k) = {} /\ streak[k] < CIRCUIT_BREAKER_FAILURE_THRESHOLD)
            => /\ circuit_breakers[k].failure_count = streak[k]
               /\ circuit_breakers[k].state = CLOSED

\* C10 witness: two record_failure calls that ran at the same time have both ended
C10_Witness ==
    \E t, u \in Tasks :
        /\ t # u
        /\ pc[t] = "done" /\ frame[t].op = "record_failure"
        /\ pc[u] = "done" /\ frame[u].op = "record_failure" /\ frame[u].overlap
        /\ frame[u].breaker = frame[t].breaker
        /\ streak[frame[t].breaker] = 2
        /\ Breaker(t).failure_count = 2
        /\ Breaker(t).state = CLOSED

\* C11: a record_failure that finds the breaker HALF_OPEN leaves it as a fresh
\* trip does: state OPEN, last_failure_time the time of this failure, so that
\* check_state says OPEN for a further recovery_timeout, and failure_count
\* equal to the threshold.
C11_HalfOpenFailureRearms ==
    [][\A t \in Tasks :
         (Leaves(t, "rf_24w") /\ Breaker(t).state = HALF_OPEN)
             => LET b == circuit_breakers'[frame[t].breaker]
                IN  /\ b.state = OPEN
                    /\ b.last_failure_time = now
                    /\ \A d \in 0..CIRCUIT_BREAKER_RECOVERY_TIMEOUT :
                          StateAfterCheck(b, now + d) = OPEN
                    /\ b.failure_count = CIRCUIT_BREAKER_FAILURE_THRESHOLD]_vars

\* C12: a record_success that finds the breaker CLOSED changes none of state,
\* failure_count and last_failure_time.
C12_SuccessInClosedNoOp ==
    [][\A t \in Tasks :
         (Leaves(t, "rs_31") /\ Breaker(t).state = CLOSED)
             => LET b == circuit_breakers'[frame[t].breaker]
                IN  /\ b.state = Breaker(t).state
                    /\ b.failure_count = Breaker(t).failure_count
                    /\ b.last_failure_time = Breaker(t).last_failure_time]_vars

\* C24: whatever the interleaving of check_state, record_failure and
\* record_success, a CLOSED breaker has 0 <= failure_count < threshold, an
\* OPEN or HALF_OPEN breaker has failure_count >= threshold and a
\* last_failure_time at which a failure was recorded: last_failure_time is
\* only ever set by a record_failure, to the time of that failure.
C24_StateCounterInvariant ==
    /\ [](\A k \in Breakers :
            LET b == circuit_breakers[k]
            IN  /\ b.state \in {CLOSED, OPEN, HALF_OPEN}
                /\ b.state = CLOSED
                      => 0 <= b.failure_count
                         /\ b.failure_count < CIRCUIT_BREAKER_FAILURE_THRESHOLD
                /\ b.state \in {OPEN, HALF_OPEN}
                      => /\ b.failure_count >= CIRCUIT_BREAKER_FAILURE_THRESHOLD
                         /\ streak[k] >= CIRCUIT_BREAKER_FAILURE_THRESHOLD
                         /\ b.last_failure_time <= now)
    /\ [][\A k \in Breakers :
            circuit_breakers'[k].last_failure_time # circuit_breakers[k].last_failure_time
                => /\ \E t \in Tasks : Leaves(t, "rf_24w") /\ frame[t].breaker = k
                   /\ circuit_breakers'[k].last_failure_time = now]_vars

\* C24 witness: a record_failure and a record_success are both in progress on
\* a HALF_OPEN breaker whose count has passed the threshold
C24_Witness ==
    \E t, u \in Tasks :
        /\ pc[t] = "rf_24w" /\ pc[u] = "rs_30"
        /\ frame[u].breaker = frame[t].breaker
        /\ Breaker(t).state = HALF_OPEN
        /\ Breaker(t).failure_count > CIRCUIT_BREAKER_FAILURE_THRESHOLD

(***************************************************************************)
(* Claims about CircuitBreakerMiddleware.dispatch (checked under Spec).    *)
(***************************************************************************)
\* Task t begins a request in this step
Begins(t) == pc[t] = "idle" /\ pc'[t] # "idle"

\* The service of the request task t works on in this step
ActingService(t) == IF pc[t] = "idle" THEN frame'[t].service ELSE frame[t].service

\* C2: a request whose check_state returned OPEN ends at once with a 503 that
\* names the service, makes no upstream call, and leaves failure_count and
\* last_failure_time of its breaker as they were.
C2_OpenRejects ==
    /\ [](\A t \in Tasks :
            (frame[t].op = "dispatch" /\ frame[t].state = OPEN)
                => /\ pc[t] = "done"
                   /\ frame[t].calls = 0
                   /\ frame[t].response = [status |-> 503, detail |-> Unavailable,
                                           service |-> frame[t].service])
    /\ [][\A t \in Tasks :
            (Begins(t) /\ frame'[t].state = OPEN)
                => LET k == frame'[t].service
                   IN  /\ k \in Breakers
                       /\ circuit_breakers'[k].failure_count = circuit_breakers[k].failure_count
                       /\ circuit_breakers'[k].last_failure_time
                             = circuit_breakers[k].last_failure_time
                       /\ streak' = streak]_vars

\* C2 witness: a request was rejected with 503 while its breaker is OPEN
C2_Witness ==
    \E t \in Tasks :
        /\ pc[t] = "done" /\ frame[t].op = "dispatch" /\ frame[t].state = OPEN
        /\ frame[t].response.status = 503
        /\ frame[t].response.service = "restaurant-service"
        /\ frame[t].calls = 0
        /\ circuit_breakers["restaurant-service"].state = OPEN
        /\ circuit_breakers["restaurant-service"].failure_count
              = CIRCUIT_BREAKER_FAILURE_THRESHOLD

\* Task t's call_next returns a response in this step
Answered(t) == Leaves(t, "d_75") /\ frame'[t].raised = NoException

\* Task t's call_next raises in this step
Failed(t) == Leaves(t, "d_75") /\ frame'[t].raised # NoException

\* C13: a request admitted in CLOSED and answered leaves every breaker as it
\* was (record_success is not called); failure_count goes back to 0 only when
\* a request admitted in HALF_OPEN is answered; every failed call adds one to
\* failure_count, whatever was answered in between, and the breaker is OPEN
\* once the count has reached the threshold.
C13_ClosedSuccessKeepsCount ==
    /\ [][\A t \in Tasks :
            (Answered(t) /\ frame[t].state = CLOSED)
                => circuit_breakers' = circuit_breakers /\ streak' = streak]_vars
    /\ [][\A k \in Breakers :
            (circuit_breakers[k].failure_count > 0 /\ circuit_breakers'[k].failure_count = 0)
                => \E t \in Tasks :
                      Answered(t) /\ frame[t].state = HALF_OPEN /\ frame[t].breaker = k]_vars
    /\ [][\A t \in Tasks :
            Failed(t)
                => LET b == circuit_breakers'[frame[t].breaker]
                   IN  /\ b.failure_count = Breaker(t).failure_count + 1
                       /\ b.failure_count >= CIRCUIT_BREAKER_FAILURE_THRESHOLD
                             => b.state = OPEN]_vars

\* C13 witness: the breaker has tripped on threshold failures although a
\* request admitted in CLOSED was answered 200
C13_Witness ==
    \E t, u \in Tasks :
        /\ pc[t] = "done" /\ frame[t].state = CLOSED /\ frame[t].raised = NoException
        /\ frame[t].response.status = 200 /\ frame[t].calls = 1
        /\ pc[u] = "done" /\ frame[u].state = CLOSED /\ frame[u].raised = TransportError
        /\ frame[u].breaker = frame[t].breaker
        /\ Breaker(t).failure_count = CIRCUIT_BREAKER_FAILURE_THRESHOLD
        /\ Breaker(t).state = OPEN

\* C14: when call_next raises for a request admitted in CLOSED or HALF_OPEN,
\* record_failure runs once on the breaker of the request's service (one more
\* failure counted, last_failure_time set to now) and the request ends with
\* the 503 "experiencing issues" that names the service.
C14_TransportFailure ==
    [][\A t \in Tasks :
         (Failed(t) /\ frame'[t].raised = TransportError)
             => LET k == frame[t].breaker
                IN  /\ frame[t].state \in {CLOSED, HALF_OPEN}
                    /\ k = BreakerKey(frame[t].service)
                    /\ streak'[k] = streak[k] + 1
                    /\ circuit_breakers'[k].failure_count
                          = circuit_breakers[k].failure_count + 1
                    /\ circuit_breakers'[k].last_failure_time = now
                    /\ pc'[t] = "done"
                    /\ frame'[t].response =
                          [status |-> 503, detail |-> Issues, service |-> frame[t].service]]_vars

\* C14 witness: the trial request of a HALF_OPEN breaker failed: 503, OPEN again
C14_Witness ==
    \E t \in Tasks :
        /\ pc[t] = "done" /\ frame[t].state = HALF_OPEN
        /\ frame[t].raised = TransportError
        /\ frame[t].response.status = 503 /\ frame[t].response.detail = Issues
        /\ Breaker(t).state = OPEN
        /\ Breaker(t).last_failure_time = now
        /\ streak[frame[t].breaker] = CIRCUIT_BREAKER_FAILURE_THRESHOLD + 1

\* C15: when call_next returns a response, whatever its status, no failure is
\* recorded (failure count and last_failure_time do not grow), and for a
\* request admitted in HALF_OPEN record_success runs: the breaker is CLOSED
\* with failure_count 0.
C15_UpstreamErrorsSucceed ==
    [][\A t \in Tasks :
         Answered(t)
             => LET k == frame[t].breaker
                IN  /\ frame'[t].response.status \in UpstreamStatuses
                    /\ streak'[k] <= streak[k]
                    /\ circuit_breakers'[k].failure_count <= circuit_breakers[k].failure_count
                    /\ circuit_breakers'[k].last_failure_time
                          = circuit_breakers[k].last_failure_time
                    /\ frame[t].state = HALF_OPEN
                          => /\ circuit_breakers'[k].state = CLOSED
                             /\ circuit_breakers'[k].failure_count = 0
                             /\ streak'[k] = 0]_vars

\* C15 witness: the trial request was answered 500 by the upstream and the
\* breaker is CLOSED again
C15_Witness ==
    \E t \in Tasks :
        /\ pc[t] = "done" /\ frame[t].state = HALF_OPEN
        /\ frame[t].raised = NoException
        /\ frame[t].response.status = 500
        /\ \A u \in Tasks \ {t} : pc[u] = "idle"
        /\ Breaker(t).state = CLOSED
        /\ Breaker(t).failure_count = 0
        /\ Breaker(t).last_failure_time + CIRCUIT_BREAKER_RECOVERY_TIMEOUT < now

\* C9: a step of a request for service X leaves the breaker of every other
\* service Y as it was, and a request is rejected as unavailable only when
\* the breaker of its own service is OPEN after threshold failures of its own.
C9_Isolation ==
    /\ [][\A t \in Tasks :
            pc'[t] # pc[t]
                => \A y \in Breakers :
                      y # ActingService(t)
                          => /\ circuit_breakers'[y] = circuit_breakers[y]
                             /\ streak'[y] = streak[y]]_vars
    /\ [][\A t \in Tasks :
            (Begins(t) /\ frame'[t].response.detail = Unavailable)
                => /\ ActingService(t) \in Breakers
                   /\ circuit_breakers[ActingService(t)].state = OPEN
                   /\ streak[ActingService(t)] >= CIRCUIT_BREAKER_FAILURE_THRESHOLD]_vars

\* C9 witness: auth-service is tripped; a request for restaurant-service was
\* served, and the restaurant-service breaker is untouched
C9_Witness ==
    /\ Breakers = {"auth-service", "restaurant-service"}
    /\ circuit_breakers["auth-service"].state = OPEN
    /\ streak["auth-service"] = CIRCUIT_BREAKER_FAILURE_THRESHOLD
    /\ circuit_breakers["restaurant-service"] = NewCircuitBreaker
    /\ \E t, u \in Tasks :
          /\ pc[t] = "done" /\ frame[t].service = "restaurant-service"
          /\ frame[t].response.status = 200
          /\ pc[u] = "done" /\ frame[u].service = "auth-service"
          /\ frame[u].response.detail = Unavailable

\* The transitions of a breaker's state the state machine lists
ListedTransitions ==
    { <<CLOSED, OPEN>>, <<OPEN, HALF_OPEN>>, <<HALF_OPEN, CLOSED>>, <<HALF_OPEN, OPEN>> }

\* C25: with requests admitted in HALF_OPEN finishing in any order, a
\* breaker's state changes only along CLOSED->OPEN, OPEN->HALF_OPEN,
\* HALF_OPEN->CLOSED and HALF_OPEN->OPEN; a trial answered after another
\* trial's failure re-opened the breaker leaves it OPEN with its count.
C25_OnlyListedTransitions ==
    [][\A k \in Breakers :
         /\ circuit_breakers'[k].state # circuit_breakers[k].state
               => <<circuit_breakers[k].state, circuit_breakers'[k].state>>
                     \in ListedTransitions
         /\ \A t \in Tasks :
               ( /\ Answered(t) /\ frame[t].breaker = k
                 /\ frame[t].state = HALF_OPEN
                 /\ circuit_breakers[k].state = OPEN )
                   => circuit_breakers'[k] = circuit_breakers[k]]_vars

\* C26 as stated: a failure recorded while the breaker is OPEN (the request
\* was admitted before the trip) does not move the end of the open period:
\* a check_state made later than the earlier last_failure_time plus
\* recovery_timeout still returns HALF_OPEN.
C26_LateFailuresDoNotPostpone ==
    [][\A t \in Tasks :
         (Failed(t) /\ Breaker(t).state = OPEN)
             => StateAfterCheck(circuit_breakers'[frame[t].breaker],
                                Breaker(t).last_failure_time
                                   + CIRCUIT_BREAKER_RECOVERY_TIMEOUT + 1) = HALF_OPEN]_vars

\* C26 amended: a failure recorded while the breaker is OPEN leaves it OPEN
\* and sets last_failure_time to the time of that failure, so the open period
\* starts again: check_state returns OPEN until recovery_timeout has passed
\* since this latest failure, and HALF_OPEN once more than that has passed.
C26_LateFailuresRestartTimeout ==
    [][\A t \in Tasks :
         (Failed(t) /\ Breaker(t).state = OPEN)
             => LET b == circuit_breakers'[frame[t].breaker]
                IN  /\ b.state = OPEN
                    /\ b.last_failure_time = now
                    /\ \A d \in 0..CIRCUIT_BREAKER_RECOVERY_TIMEOUT :
                          StateAfterCheck(b, now + d) = OPEN
                    /\ StateAfterCheck(b, now + CIRCUIT_BREAKER_RECOVERY_TIMEOUT + 1)
                          = HALF_OPEN]_vars

\* C26 witness: two requests admitted in CLOSED have failed, the later one
\* after the breaker had tripped and after the clock had moved on
C26_Witness ==
    \E t, u \in Tasks :
        /\ t # u
        /\ pc[t] = "done" /\ frame[t].state = CLOSED /\ frame[t].raised = TransportError
        /\ pc[u] = "done" /\ frame[u].state = CLOSED /\ frame[u].raised = TransportError
        /\ frame[u].breaker = frame[t].breaker
        /\ streak[frame[t].breaker] = CIRCUIT_BREAKER_FAILURE_THRESHOLD + 1
        /\ Breaker(t).state = OPEN
        /\ Breaker(t).last_failure_time = now
        /\ now > 0

(***************************************************************************)
(* Claims about recovery (checked under SpecLive).                         *)
(***************************************************************************)
LiveBreaker == BreakerKey(LiveService)

Tripped ==
    /\ LiveBreaker \in Breakers
    /\ circuit_breakers[LiveBreaker].state \in {OPEN, HALF_OPEN}

Recovered ==
    /\ LiveBreaker \in Breakers
    /\ circuit_breakers[LiveBreaker].state = CLOSED
    /\ circuit_breakers[LiveBreaker].failure_count = 0

StaysOpen == LiveBreaker \in Breakers /\ circuit_breakers[LiveBreaker].state = OPEN

\* C27 as stated: once every forwarded call succeeds, with time advancing and
\* requests arriving under fair scheduling, the service's breaker eventually
\* is CLOSED with failure_count = 0 for good (so never OPEN again), and an
\* OPEN breaker does not stay OPEN forever.
C27_RecoveryLiveness ==
    /\ <>[]Recovered
    /\ []<>~StaysOpen

\* C27 amended: under the same conditions a breaker that has tripped (OPEN or
\* HALF_OPEN) eventually is CLOSED with failure_count = 0, the breaker
\* eventually is CLOSED for good, and an OPEN breaker does not stay OPEN
\* forever; a success of a request admitted in CLOSED changes nothing, so a
\* breaker that never tripped keeps the failures it has counted.
C27_TrippedBreakerRecovers ==
    /\ Tripped ~> Recovered
    /\ <>[](LiveBreaker \in Breakers /\ circuit_breakers[LiveBreaker].state = CLOSED)
    /\ []<>~StaysOpen
    /\ [][\A t \in Tasks :
            (Answered(t) /\ frame[t].state = CLOSED)
                => circuit_breakers' = circuit_breakers]_vars

\* C27 witness: a trial request admitted in HALF_OPEN was answered and the
\* breaker, tripped before, is CLOSED with failure_count = 0
C27_Witness ==
    \E t \in Tasks :
        /\ pc[t] = "done"
        /\ frame[t].state = HALF_OPEN
        /\ frame[t].raised = NoException
        /\ Recovered
        /\ circuit_breakers[LiveBreaker].last_failure_time
              + CIRCUIT_BREAKER_RECOVERY_TIMEOUT < now

(***************************************************************************)
(* Claims about the application of main.py (checked under SpecMain).       *)
(***************************************************************************)
\* Task t holds the answer to a request of main.py
MainDone(t) == pc[t] = "done" /\ frame[t].op = "main"

\* C21: a request that is answered, and not by a 429 of the gateway, gets
\* the status code, headers and body the backend returned for that request.
C21_VerbatimReturnPath ==
    \A t \in Tasks :
        (MainDone(t) /\ frame[t].response.status # 429)
            => /\ frame[t].upstream # NoResponse
               /\ frame[t].response = frame[t].upstream

\* C29: every counter key of the fixed-window limiter that exists in Redis
\* has an expiry (no later than RATE_LIMIT_WINDOW from now), whatever the
\* interleaving of expiry with get / setex / incr, so that a client that was
\* answered 429 is admitted again and never limited for good.
C29_CounterKeysExpire ==
    \A key \in DOMAIN redis :
        IsCounterKey(key)
            => /\ redis[key].expire_at # NoExpiry
               /\ redis[key].expire_at <= now + MAIN_RATE_LIMIT_WINDOW

\* C30: the body a GET request is answered with was produced by the backend
\* for the credentials that request carries, never for another caller's.
C30_NoCrossCallerLeakage ==
    \A t \in Tasks :
        ( /\ MainDone(t)
          /\ frame[t].request.method = "GET"
          /\ frame[t].response.status = 200 )
            => frame[t].response.body = UpstreamBody(frame[t].request)

(***************************************************************************)
(* Claims about the gateway pipeline (checked under SpecGW).               *)
(***************************************************************************)
\* The number of requests the limiter counts for the gateway's caller now
GatewayCount ==
    zcard(zremrangebyscore(
            RedisZSet(redis, RateLimitKey(_get_client_id(GatewayClient)), now),
            0, now - RATE_LIMIT_WINDOW))

\* Task t begins a request for /restaurants right after threshold failures
\* of restaurant-service, before the recovery timeout has run out
AfterTrip(t) ==
    /\ Begins(t)
    /\ frame'[t].path = RestaurantsPath
    /\ "restaurant-service" \in Breakers
    /\ streak["restaurant-service"] = CIRCUIT_BREAKER_FAILURE_THRESHOLD
    /\ ~RecoveryDue(now, circuit_breakers["restaurant-service"].last_failure_time)

\* Task t's request ends in this step with the given response and no upstream call
EndsWith(t, response) ==
    /\ pc'[t] = "done"
    /\ frame'[t].response = response
    /\ frame'[t].calls = 0

C17_RateLimitShortCircuits ==
    /\ [](\A t \in Tasks :
            frame[t].response.status = 429
                => pc[t] = "done" /\ frame[t].state = NoState /\ frame[t].calls = 0)
    /\ [][\A t \in Tasks :
            (Begins(t) /\ frame'[t].response.status = 429)
                => /\ GatewayCount >= RATE_LIMIT_MAX_REQUESTS
                   /\ circuit_breakers' = circuit_breakers
                   /\ streak' = streak]_vars

\* C17 witness: a request was refused with 429 while restaurant-service was
\* OPEN and due for its trial: the breaker is still OPEN
C17_Witness ==
    \E t \in Tasks :
        /\ pc[t] = "done" /\ frame[t].path = RestaurantsPath
        /\ frame[t].response = RateLimited
        /\ "restaurant-service" \in Breakers
        /\ circuit_breakers["restaurant-service"].state = OPEN
        /\ RecoveryDue(now, circuit_breakers["restaurant-service"].last_failure_time)

\* C18: a request for /health is always answered 200 and passes neither the
\* rate limiter nor a breaker: the step that takes it leaves redis and the
\* breaker registry as they were.
C18_HealthBypass ==
    /\ [](\A t \in Tasks :
            (pc[t] = "done" /\ frame[t].path = HealthPath)
                => frame[t].response.status = 200)
    /\ [][\A t \in Tasks :
            (Begins(t) /\ frame'[t].path = HealthPath)
                => redis' = redis /\ circuit_breakers' = circuit_breakers]_vars

\* C19: when an internal error of the gateway is raised while a request is
\* processed, the request ends with status 500 and the breaker registry and
\* the limiter's store are left as they were.
C19_InternalErrorContained ==
    [][\A t \in Tasks :
         (Failed(t) /\ frame'[t].raised = InternalError)
             => /\ frame'[t].response.status = 500
                /\ circuit_breakers' = circuit_breakers
                /\ redis' = redis]_vars

(***************************************************************************)
(* Claims about _get_service_from_path (checked under SpecClassify).       *)
(***************************************************************************)
\* The ordered rules: substring, service name
Rules ==
    << [word |-> W_auth,        service |-> "auth-service"],
       [word |-> W_restaurants, service |-> "restaurant-service"],
       [word |-> W_preferences, service |-> "preference-service"],
       [word |-> W_reviews,     service |-> "review-service"] >>

\* The rules whose substring occurs in the path
Matching(path) == {i \in 1..Len(Rules) : Contains(path, Rules[i].word)}

\* The service of the earliest matching rule, "unknown" when none matches
FirstMatch(path) ==
    IF Matching(path) = {}
    THEN "unknown"
    ELSE Rules[CHOOSE i \in Matching(path) : \A j \in Matching(path) : i <= j].service

\* The tasks holding the result of a classification
Classified == {t \in Tasks : pc[t] = "done" /\ frame[t].op = "classify"}

\* C20: the service of a path is that of the earliest rule in the list auth,
\* restaurants, preferences, reviews whose substring occurs in the path, and
\* "unknown" when none occurs; a path containing both "auth" and
\* "restaurants" is auth-service; two classifications of one path agree.
C20_FirstMatchWins ==
    \A t \in Classified :
        /\ frame[t].service = FirstMatch(frame[t].path)
        /\ (Contains(frame[t].path, W_auth) /\ Contains(frame[t].path, W_restaurants))
              => frame[t].service = "auth-service"
        /\ Matching(frame[t].path) = {} => frame[t].service = "unknown"
        /\ \A u \in Classified :
              frame[u].path = frame[t].path => frame[u].service = frame[t].service

\* C20 witness: /restaurants/auth is auth-service although "restaurants" comes
\* first in the path, and /aut/health, which contains no rule's substring, is
\* "unknown"
C20_Witness ==
    \E t, u \in Classified :
        /\ frame[t].path = <<"/">> \o W_restaurants \o <<"/">> \o W_auth
        /\ frame[t].service = "auth-service"
        /\ frame[u].path = <<"/">> \o W_aut \o <<"/">> \o W_health
        /\ frame[u].service = "unknown"

====
